---- MODULE Spec2Model ----
(***************************************************************************)
(* Browser session acquisition of xiaohongshu-mcp (package browser).       *)
(*                                                                         *)
(* src/browser/browser.go holds three units of package browser:            *)
(*   lines   1-162  NewBrowser / NewBrowserWithConfig / CustomBrowser      *)
(*   lines 164-341  NewChromeBrowser that attaches to a running Chrome     *)
(*   lines 343-510  NewChromeBrowser that launches Chrome on an            *)
(*                  automation profile                                     *)
(* One behaviour of the model is one acquisition through one of the three  *)
(* entry points, followed by NewPage / Close calls on the handle.          *)
(***************************************************************************)
EXTENDS Integers, Sequences, FiniteSets, TLC

(* ---------------------------------------------------------------- bounds *)
MaxPages == 2       \* NewPage calls explored per behaviour
MaxCloses == 2      \* Close calls explored per behaviour
MaxCookies == 2     \* cookie records in a well-formed cookie file

(* ------------------------------------------------------ program constants *)
\* connectToExistingChrome: ports := []string{"9222", "9223", "9224"}
Ports == <<9222, 9223, 9224>>

\* findChromePath: chromePaths (the three macOS install paths, in order)
ChromePaths == <<"Google Chrome", "Google Chrome Canary", "Chromium">>

\* the empty string a Go function returns for "no path"
NoPath == ""

\* a nil *rod.Browser / *launcher.Launcher
Nil == 0

\* what one candidate port answers: the GET fails, it answers with a status
\* other than 200, it answers 200 but the control connection fails, or it
\* answers 200 and the control connection opens
PortStates == {"get_err", "not_200", "connect_err", "ok"}

(* ------------------------------------------------------------ file system *)
\* a path is the sequence of its components; filepath.Join drops empty ones
Join(a, b) == a \o b

HomePath == <<"HOME">>
NoFile == [exists |-> FALSE, data |-> <<>>]
File(d) == [exists |-> TRUE, data |-> d]

\* cookie database of the user's everyday profile, and one left by an earlier run
UserDb == <<1, 2>>
OldDb == <<3>>

VARIABLES
    entry,          \* which entry point this acquisition runs
    cfg,            \* Config: [Headless, UseSystemChrome]
    chromeExists,   \* environment: which of ChromePaths exec.LookPath finds
    portState,      \* environment: what each candidate port answers
    cookieFile,     \* environment: the Cookie Store file
    homeOK,         \* environment: os.UserHomeDir succeeds
    dirs,           \* file system: directories that exist
    files,          \* file system: path -> file
    pc,             \* position of the acquisition
    portIdx,        \* connectToExistingChrome: index of the port being probed
    probes,         \* connectToExistingChrome: ports probed so far, in order
    openResp,       \* connectToExistingChrome: ports whose response body is open
    peer,           \* a concurrent isolated launch: its place in copyFile, bytes written
    chromePath,     \* local chromePath
    userDataDir,    \* local userDataDir
    cf,             \* copyFile: [src, dst, open] of the running copy
    l,              \* local l: the launcher (process id it launched, or Nil)
    browser,        \* local browser: what the rod.Browser is connected to
    procs,          \* browser processes launched by this acquisition
    custom,         \* the CustomBrowser wrapper built at lines 98-101
    handle,         \* the handle returned to the caller
    result,         \* how the acquisition ended
    warned,         \* warnings logged (logrus.Warn / Warnf)
    running,        \* browsers that are running (process ids and attached ports)
    connected,      \* browsers a control connection of this program is open to
    pages,          \* pages opened through the handle
    closeCalls,     \* Close calls made on the handle
    lastOp          \* the last call made on the handle: "none", "NewPage", "Close"

vars == <<entry, cfg, chromeExists, portState, cookieFile, homeOK, dirs, files, peer,
          pc, portIdx, probes, openResp, chromePath, userDataDir, cf, l, browser,
          procs, custom, handle, result, warned, running, connected, pages,
          closeCalls, lastOp>>

envVars == <<entry, cfg, chromeExists, portState, cookieFile, homeOK>>
fsVars == <<dirs, files>>
useVars == <<pages, closeCalls, lastOp>>

(* ------------------------------------------------------ paths of the model *)
ChromeDir == <<"Library", "Application Support", "Google", "Chrome">>
AutomationDir == <<"Library", "Application Support", "Google", "Chrome-Automation">>

\* getUserChromeDataDir: "" when the home directory cannot be resolved
getUserChromeDataDir(home) ==
    IF ~home THEN <<>> ELSE Join(HomePath, ChromeDir)

\* the path getAutomationChromeDataDir returns ("" when the home directory
\* cannot be resolved); its MkdirAll is part of the action GetAutomationDir
automationChromeDataDirPath(home) ==
    IF ~home THEN <<>> ELSE Join(HomePath, AutomationDir)

\* copyUserCookiesToAutomation: the four paths it computes
userCookiesPath(home) == Join(getUserChromeDataDir(home), <<"Default", "Cookies">>)
automationCookiesDir(automationDir) == Join(automationDir, <<"Default">>)
automationCookiesPath(automationDir) ==
    Join(automationCookiesDir(automationDir), <<"Cookies">>)

FilePaths == {userCookiesPath(h) : h \in BOOLEAN}
                 \cup {automationCookiesPath(automationChromeDataDirPath(h)) : h \in BOOLEAN}

(* ------------------------------------------------------------ Cookie Store *)
CookieFiles ==
    {[state |-> "missing", n |-> 0], [state |-> "malformed", n |-> 0]}
        \cup {[state |-> "valid", n |-> k] : k \in 0..MaxCookies}

\* cookies.LoadCookie.LoadCookies: the bytes of the file, or an error when
\* the file cannot be read
LoadCookiesFails(file) == file.state = "missing"

\* json.Unmarshal(data, &cookieData) into []*proto.NetworkCookie
UnmarshalFails(file) == file.state = "malformed"

(* --------------------------------------------------------- Browser Locator *)
RECURSIVE FindFrom(_, _)
FindFrom(exists, i) ==
    IF i > Len(ChromePaths) THEN NoPath
    ELSE IF exists[i] THEN ChromePaths[i]
    ELSE FindFrom(exists, i + 1)

\* findChromePath with the loop started at the second candidate
findChromePath_FromSecond(exists) == FindFrom(exists, 2)

\* findChromePath: the first candidate exec.LookPath accepts, or ""
findChromePath(exists) == FindFrom(exists, 1)

\* isSystemChromeAvailable
isSystemChromeAvailable(exists) == findChromePath(exists) # NoPath

(* ------------------------------------------------------------------- Init *)
NoCopy == [src |-> <<>>, dst |-> <<>>, open |-> FALSE]
NoHandle == [kind |-> "none", browser |-> Nil, launcher |-> Nil]
NoPorts == [i \in 1..Len(Ports) |-> "get_err"]
NoFiles == [p \in FilePaths |-> NoFile]

\* file systems the acquisition can start from: the automation profile may be
\* left over from an earlier run, and a cookie database lies in a directory
InitFs(home) ==
    LET u == userCookiesPath(home)
        ad == automationChromeDataDirPath(home)
        a == automationCookiesPath(ad)
    IN  \E ud \in {NoFile, File(UserDb)}, od \in {NoFile, File(OldDb)},
           ds \in {{}, {ad}, {ad, automationCookiesDir(ad)}} :
            /\ od.exists => ds = {ad, automationCookiesDir(ad)}
            /\ (u = a) => ud = NoFile
            /\ dirs = ds \ {<<>>}
            /\ files = [p \in FilePaths |->
                          IF p = a /\ od.exists THEN od
                          ELSE IF p = u THEN ud ELSE NoFile]

InitEnv ==
    \/ /\ entry = "NewBrowserWithConfig"
       /\ cfg \in [Headless : BOOLEAN, UseSystemChrome : BOOLEAN]
       /\ chromeExists \in [1..Len(ChromePaths) -> BOOLEAN]
       /\ cookieFile \in CookieFiles
       /\ portState = NoPorts
       /\ homeOK = TRUE
       /\ dirs = {}
       /\ files = NoFiles
    \/ /\ entry = "NewChromeBrowserAttach"
       /\ cfg \in [Headless : BOOLEAN, UseSystemChrome : {TRUE}]
       /\ chromeExists \in [1..Len(ChromePaths) -> BOOLEAN]
       /\ cookieFile = [state |-> "missing", n |-> 0]
       /\ portState \in [1..Len(Ports) -> PortStates]
       /\ homeOK = TRUE
       /\ dirs = {}
       /\ files = NoFiles
    \/ /\ entry = "NewChromeBrowserLaunch"
       /\ cfg \in [Headless : BOOLEAN, UseSystemChrome : {TRUE}]
       /\ chromeExists \in [1..Len(ChromePaths) -> BOOLEAN]
       /\ cookieFile \in CookieFiles
       /\ portState = NoPorts
       /\ homeOK \in BOOLEAN
       /\ InitFs(homeOK)

\* no other invocation runs beside this one
PeerIdle == [pc |-> "idle", n |-> 0]

\* the state of one acquisition at its call
InitAcquisition ==
    /\ InitEnv
    /\ pc = "start"
    /\ portIdx = 1
    /\ probes = <<>>
    /\ openResp = {}
    /\ chromePath = NoPath
    /\ userDataDir = <<>>
    /\ cf = NoCopy
    /\ l = Nil
    /\ browser = Nil
    /\ procs = <<>>
    /\ custom = NoHandle
    /\ handle = NoHandle
    /\ result = "running"
    /\ warned = {}
    /\ running = {Ports[i] : i \in {j \in 1..Len(Ports) : portState[j] \in {"connect_err", "ok"}}}
    /\ connected = {}
    /\ pages = 0
    /\ closeCalls = 0
    /\ lastOp = "none"

Init == InitAcquisition /\ peer = PeerIdle

\* an isolated launch called while another invocation of the tool, under the
\* same home directory, is in copyFile about to create the destination, or
\* has ended before it because there was nothing to copy or nowhere to
InitRace ==
    /\ InitAcquisition
    /\ entry = "NewChromeBrowserLaunch"
    /\ LET ad == automationChromeDataDirPath(homeOK)
       IN  peer = [pc |-> IF /\ files[userCookiesPath(homeOK)].exists
                             /\ automationCookiesDir(ad) \in dirs
                          THEN "cf_create" ELSE "done",
                   n |-> 0]

(* ------------------------------------------------------- shared operations *)
Warn(msg) == warned' = warned \cup {msg}

\* a browser process as launcher.MustLaunch starts it
\* (profile: the cookie database it finds in its user-data directory)
Process(headless, bin, dataDir, profile, by) ==
    [headless |-> headless, bin |-> bin, dataDir |-> dataDir, by |-> by,
     profile |-> profile, cookies |-> 0]

\* l.MustLaunch(): the process starts and its id is bound to l, or the call panics
MustLaunch(proc, next) ==
    \/ /\ procs' = Append(procs, proc)
       /\ l' = Len(procs) + 1
       /\ running' = running \cup {Len(procs) + 1}
       /\ pc' = next
       /\ UNCHANGED result
    \/ /\ pc' = "done"
       /\ result' = "panic_launch"
       /\ UNCHANGED <<procs, l, running>>

\* rod.New().ControlURL(url).MustConnect(): connected to the process l
\* launched, or the call panics
MustConnect(next) ==
    \/ /\ browser' = l
       /\ connected' = connected \cup {l}
       /\ pc' = next
       /\ UNCHANGED result
    \/ /\ pc' = "done"
       /\ result' = "panic_connect"
       /\ UNCHANGED <<browser, connected>>

\* the cookie-loading block (lines 85-95, and loadCookiesForBrowser): a warning
\* when the file cannot be read, nothing at all when it does not parse, and
\* browser.MustSetCookies otherwise
LoadCookiesInto(b) ==
    IF LoadCookiesFails(cookieFile)
    THEN /\ Warn("failed to load cookies")
         /\ UNCHANGED procs
    ELSE IF UnmarshalFails(cookieFile)
    THEN UNCHANGED <<warned, procs>>
    ELSE /\ procs' = [procs EXCEPT ![b].cookies = cookieFile.n]
         /\ UNCHANGED warned

\* headless_browser.New(opts...): launches a browser of its own in the given
\* headless mode, connects to it and sets the cookies of opts when they parse
\* (a warning when they do not); MustLaunch / MustConnect inside it panic.
\* logged: the warnings the caller has logged on its way to the call
HeadlessBrowserNew(headless, withCookies, logged, res) ==
    \/ /\ procs' = Append(procs,
             [Process(headless, NoPath, <<>>, NoFile, "headless_browser") EXCEPT
                 !.cookies = IF withCookies /\ ~UnmarshalFails(cookieFile)
                             THEN cookieFile.n ELSE 0])
       /\ running' = running \cup {Len(procs) + 1}
       /\ connected' = connected \cup {Len(procs) + 1}
       /\ handle' = [kind |-> "headless_browser", browser |-> Len(procs) + 1,
                     launcher |-> Len(procs) + 1]
       /\ warned' = warned \cup logged \cup
             (IF withCookies /\ UnmarshalFails(cookieFile)
              THEN {"failed to unmarshal cookies"} ELSE {})
       /\ result' = res
       /\ pc' = "done"
    \/ /\ pc' = "done"
       /\ result' = "panic_new"
       /\ warned' = warned \cup logged
       /\ UNCHANGED <<procs, running, connected, handle>>

(* --------------------------------------- NewBrowserWithConfig (lines 63-129) *)
\* line 64: the branch on cfg.UseSystemChrome && isSystemChromeAvailable()
NBC_Branch ==
    /\ pc = "start"
    /\ entry = "NewBrowserWithConfig"
    /\ pc' = IF cfg.UseSystemChrome /\ isSystemChromeAvailable(chromeExists)
             THEN "nbc_launch" ELSE "nbc_fallback"
    /\ UNCHANGED <<envVars, peer, fsVars, useVars, portIdx, probes, openResp, chromePath,
                   userDataDir, cf, l, browser, procs, custom, handle, result, warned,
                   running, connected>>

\* lines 68-79: launcher on the Chrome found, headless as configured, MustLaunch
NBC_Launch ==
    /\ pc = "nbc_launch"
    /\ chromePath' = findChromePath(chromeExists)
    /\ MustLaunch(Process(cfg.Headless, chromePath', <<>>, NoFile, "launcher"), "nbc_connect")
    /\ UNCHANGED <<envVars, peer, fsVars, useVars, portIdx, probes, openResp,
                   userDataDir, cf, browser, custom, handle, warned, connected>>

\* line 82
NBC_Connect ==
    /\ pc = "nbc_connect"
    /\ MustConnect("nbc_cookies")
    /\ UNCHANGED <<envVars, peer, fsVars, useVars, portIdx, probes, openResp, chromePath,
                   userDataDir, cf, l, procs, custom, handle, warned, running>>

\* lines 84-95
NBC_LoadCookies ==
    /\ pc = "nbc_cookies"
    /\ LoadCookiesInto(browser)
    /\ pc' = "nbc_wrap"
    /\ UNCHANGED <<envVars, peer, fsVars, useVars, portIdx, probes, openResp, chromePath,
                   userDataDir, cf, l, browser, custom, handle, result, running,
                   connected>>

\* lines 97-101: the CustomBrowser wrapper around the launched Chrome
NBC_Wrap ==
    /\ pc = "nbc_wrap"
    /\ custom' = [kind |-> "CustomBrowser", browser |-> browser, launcher |-> l]
    /\ pc' = "nbc_compat"
    /\ UNCHANGED <<envVars, peer, fsVars, useVars, portIdx, probes, openResp, chromePath,
                   userDataDir, cf, l, browser, procs, handle, result, warned, running,
                   connected>>

\* lines 105, 133-141: the wrapper is dropped and a new headless_browser is
\* returned, built with WithHeadless(false) and no cookies
createCompatibleBrowser ==
    /\ pc = "nbc_compat"
    /\ HeadlessBrowserNew(FALSE, FALSE, {}, "system")
    /\ UNCHANGED <<envVars, peer, fsVars, useVars, portIdx, probes, openResp, chromePath,
                   userDataDir, cf, l, browser, custom>>

\* lines 108-128: the default headless_browser, with the cookie file's bytes
\* when it can be read
NBC_Fallback ==
    /\ pc = "nbc_fallback"
    /\ HeadlessBrowserNew(cfg.Headless, ~LoadCookiesFails(cookieFile),
          (IF cfg.UseSystemChrome THEN {"System Chrome not found"} ELSE {})
              \cup (IF LoadCookiesFails(cookieFile)
                    THEN {"failed to load cookies"} ELSE {}),
          "fallback")
    /\ UNCHANGED <<envVars, peer, fsVars, useVars, portIdx, probes, openResp, chromePath,
                   userDataDir, cf, l, browser, custom>>

(* ------------------------- NewChromeBrowser, attaching (lines 189-206, 220-245) *)
\* line 191: the call of connectToExistingChrome
NCA_Start ==
    /\ pc = "start"
    /\ entry = "NewChromeBrowserAttach"
    /\ pc' = "cec_get"
    /\ portIdx' = 1
    /\ UNCHANGED <<envVars, peer, fsVars, useVars, probes, openResp, chromePath,
                   userDataDir, cf, l, browser, procs, custom, handle, result, warned,
                   running, connected>>

\* lines 224-232: GET /json/version on the next port with a 2 s timeout; on
\* an error there is no response and the loop goes on to the next port
CEC_Get ==
    /\ pc = "cec_get"
    /\ portIdx <= Len(Ports)
    /\ probes' = Append(probes, Ports[portIdx])
    /\ IF portState[portIdx] = "get_err"
       THEN /\ portIdx' = portIdx + 1
            /\ pc' = "cec_get"
            /\ UNCHANGED openResp
       ELSE /\ openResp' = openResp \cup {Ports[portIdx]}
            /\ pc' = "cec_status"
            /\ UNCHANGED portIdx
    /\ UNCHANGED <<envVars, peer, fsVars, useVars, chromePath, userDataDir, cf, l,
                   browser, procs, custom, handle, result, warned, running, connected>>

\* CEC_Status stepping over the port after one that answered without a 200
CEC_Status_SkippingPort ==
    /\ pc = "cec_status"
    /\ openResp' = openResp \ {Ports[portIdx]}
    /\ IF portState[portIdx] = "not_200"
       THEN /\ portIdx' = portIdx + 2
            /\ pc' = "cec_get"
       ELSE /\ pc' = "cec_connect"
            /\ UNCHANGED portIdx
    /\ UNCHANGED <<envVars, peer, fsVars, useVars, probes, chromePath, userDataDir, cf,
                   l, browser, procs, custom, handle, result, warned, running,
                   connected>>

\* CEC_Status without resp.Body.Close(): the response is left open
CEC_Status_LeavingBodyOpen ==
    /\ pc = "cec_status"
    /\ IF portState[portIdx] = "not_200"
       THEN /\ portIdx' = portIdx + 1
            /\ pc' = "cec_get"
       ELSE /\ pc' = "cec_connect"
            /\ UNCHANGED portIdx
    /\ UNCHANGED <<envVars, peer, fsVars, useVars, probes, openResp, chromePath,
                   userDataDir, cf, l, browser, procs, custom, handle, result, warned,
                   running, connected>>

\* lines 233-235: resp.Body.Close(), then the status: 200 goes on to the
\* control connection, anything else to the next port
CEC_Status ==
    /\ pc = "cec_status"
    /\ openResp' = openResp \ {Ports[portIdx]}
    /\ IF portState[portIdx] = "not_200"
       THEN /\ portIdx' = portIdx + 1
            /\ pc' = "cec_get"
       ELSE /\ pc' = "cec_connect"
            /\ UNCHANGED portIdx
    /\ UNCHANGED <<envVars, peer, fsVars, useVars, probes, chromePath, userDataDir, cf,
                   l, browser, procs, custom, handle, result, warned, running,
                   connected>>

\* CEC_Connect with the error of Connect() ignored: the browser is returned
\* whether or not the control connection opened
CEC_Connect_IgnoringError ==
    /\ pc = "cec_connect"
    /\ browser' = Ports[portIdx]
    /\ connected' = connected \cup {Ports[portIdx]}
    /\ pc' = "nca_return"
    /\ UNCHANGED <<envVars, peer, fsVars, useVars, portIdx, probes, openResp, chromePath,
                   userDataDir, cf, l, procs, custom, handle, result, warned, running>>

\* lines 236-241: rod.New().ControlURL(url).Connect(); return on success,
\* next port on failure
CEC_Connect ==
    /\ pc = "cec_connect"
    /\ IF portState[portIdx] = "ok"
       THEN /\ browser' = Ports[portIdx]
            /\ connected' = connected \cup {Ports[portIdx]}
            /\ pc' = "nca_return"
            /\ UNCHANGED portIdx
       ELSE /\ portIdx' = portIdx + 1
            /\ pc' = "cec_get"
            /\ UNCHANGED <<browser, connected>>
    /\ UNCHANGED <<envVars, peer, fsVars, useVars, probes, openResp, chromePath,
                   userDataDir, cf, l, procs, custom, handle, result, warned, running>>

\* line 244: the loop is over, "no existing Chrome instance found"
CEC_NotFound ==
    /\ pc = "cec_get"
    /\ portIdx > Len(Ports)
    /\ browser' = Nil
    /\ pc' = "nca_err"
    /\ UNCHANGED <<envVars, peer, fsVars, useVars, portIdx, probes, openResp, chromePath,
                   userDataDir, cf, l, procs, custom, handle, result, warned, running,
                   connected>>

\* lines 192-198: logrus.Fatal logs and calls os.Exit(1)
NCA_Fatal ==
    /\ pc = "nca_err"
    /\ pc' = "done"
    /\ result' = "fatal_no_attach"
    /\ UNCHANGED <<envVars, peer, fsVars, useVars, portIdx, probes, openResp, chromePath,
                   userDataDir, cf, l, browser, procs, custom, handle, warned, running,
                   connected>>

\* NCA_Return with the attached browser recorded as the handle's own launcher
NCA_Return_OwningBrowser ==
    /\ pc = "nca_return"
    /\ handle' = [kind |-> "ChromeBrowser", browser |-> browser, launcher |-> browser]
    /\ pc' = "done"
    /\ result' = "attached"
    /\ UNCHANGED <<envVars, peer, fsVars, useVars, portIdx, probes, openResp, chromePath,
                   userDataDir, cf, l, browser, procs, custom, warned, running,
                   connected>>

\* lines 200-205: the handle on the running Chrome, launcher nil
NCA_Return ==
    /\ pc = "nca_return"
    /\ handle' = [kind |-> "ChromeBrowser", browser |-> browser, launcher |-> Nil]
    /\ pc' = "done"
    /\ result' = "attached"
    /\ UNCHANGED <<envVars, peer, fsVars, useVars, portIdx, probes, openResp, chromePath,
                   userDataDir, cf, l, browser, procs, custom, warned, running,
                   connected>>

(* ----------------------------- NewChromeBrowser, launching (lines 365-403) *)
\* lines 366-371: no Chrome found: logrus.Fatal logs and calls os.Exit(1)
NCL_Find ==
    /\ pc = "start"
    /\ entry = "NewChromeBrowserLaunch"
    /\ chromePath' = findChromePath(chromeExists)
    /\ IF chromePath' = NoPath
       THEN /\ pc' = "done"
            /\ result' = "fatal_no_chrome"
       ELSE /\ pc' = "ncl_autodir"
            /\ UNCHANGED result
    /\ UNCHANGED <<envVars, peer, fsVars, useVars, portIdx, probes, openResp,
                   userDataDir, cf, l, browser, procs, custom, handle, warned, running,
                   connected>>

\* os.MkdirAll(dir): nothing to do when dir exists; else dir and its parents
\* are created, or the call fails and a warning is logged
MkdirAll(dir, parents, msg, ok) ==
    IF dir \in dirs
    THEN /\ ok
         /\ UNCHANGED <<dirs, warned>>
    ELSE IF ok
    THEN /\ dirs' = dirs \cup {dir} \cup parents
         /\ UNCHANGED warned
    ELSE /\ Warn(msg)
         /\ UNCHANGED dirs

\* lines 376, 447-465: getAutomationChromeDataDir
getAutomationChromeDataDir ==
    /\ pc = "ncl_autodir"
    /\ userDataDir' = automationChromeDataDirPath(homeOK)
    /\ IF ~homeOK
       THEN /\ Warn("Failed to get user home directory")
            /\ UNCHANGED dirs
       ELSE \E ok \in BOOLEAN :
               MkdirAll(userDataDir', {}, "Failed to create Chrome automation directory", ok)
    /\ pc' = "cuc_mkdir"
    /\ UNCHANGED <<envVars, peer, files, useVars, portIdx, probes, openResp, chromePath,
                   cf, l, browser, procs, custom, handle, result, running, connected>>

\* CUC_Mkdir with the failure of MkdirAll made fatal (logrus.Fatal in place
\* of logrus.Warnf)
CUC_Mkdir_Fatal ==
    /\ pc = "cuc_mkdir"
    /\ \E ok \in BOOLEAN :
          /\ MkdirAll(automationCookiesDir(userDataDir), {userDataDir} \ {<<>>},
                      "Failed to create automation Default directory", ok)
          /\ pc' = IF ok THEN "cuc_stat" ELSE "done"
          /\ result' = IF ok THEN result ELSE "fatal_mkdir"
    /\ UNCHANGED <<envVars, peer, files, useVars, portIdx, probes, openResp, chromePath,
                   userDataDir, cf, l, browser, procs, custom, handle, running,
                   connected>>

\* lines 379, 468-478: copyUserCookiesToAutomation up to the MkdirAll of the
\* automation profile's Default directory
CUC_Mkdir ==
    /\ pc = "cuc_mkdir"
    /\ \E ok \in BOOLEAN :
          /\ MkdirAll(automationCookiesDir(userDataDir), {userDataDir} \ {<<>>},
                      "Failed to create automation Default directory", ok)
          /\ pc' = IF ok THEN "cuc_stat" ELSE "ncl_launch"
    /\ UNCHANGED <<envVars, peer, files, useVars, portIdx, probes, openResp, chromePath,
                   userDataDir, cf, l, browser, procs, custom, handle, result, running,
                   connected>>

\* lines 480-487: os.Stat of the user's cookie database; copyFile when it exists
CUC_Stat ==
    /\ pc = "cuc_stat"
    /\ IF ~files[userCookiesPath(homeOK)].exists
       THEN /\ pc' = "ncl_launch"
            /\ UNCHANGED cf
       ELSE /\ pc' = "cf_open"
            /\ cf' = [src |-> userCookiesPath(homeOK),
                      dst |-> automationCookiesPath(userDataDir), open |-> FALSE]
    /\ UNCHANGED <<envVars, peer, fsVars, useVars, portIdx, probes, openResp, chromePath,
                   userDataDir, l, browser, procs, custom, handle, result, warned,
                   running, connected>>

\* lines 496-500: os.Open(src)
copyFile_Open ==
    /\ pc = "cf_open"
    /\ \/ /\ cf' = [cf EXCEPT !.open = TRUE]
          /\ pc' = "cf_create"
          /\ UNCHANGED warned
       \/ /\ Warn("Failed to copy user cookies")
          /\ cf' = NoCopy
          /\ pc' = "ncl_launch"
    /\ UNCHANGED <<envVars, peer, fsVars, useVars, portIdx, probes, openResp, chromePath,
                   userDataDir, l, browser, procs, custom, handle, result, running,
                   connected>>

\* lines 502-506: os.Create(dst) creates the file or truncates it
copyFile_Create ==
    /\ pc = "cf_create"
    /\ \/ /\ files' = [files EXCEPT ![cf.dst] = File(<<>>)]
          /\ pc' = "cf_read"
          /\ UNCHANGED <<cf, warned>>
       \/ /\ Warn("Failed to copy user cookies")
          /\ cf' = NoCopy
          /\ pc' = "ncl_launch"
          /\ UNCHANGED files
    /\ UNCHANGED <<envVars, peer, dirs, useVars, portIdx, probes, openResp, chromePath,
                   userDataDir, l, browser, procs, custom, handle, result, running,
                   connected>>

\* the bytes of a file after new is written from its start over old
Overlay(old, new) == new \o SubSeq(old, Len(new) + 1, Len(old))

\* the bytes of a file after byte b is written at offset n (a hole reads 0)
WriteAt(old, n, b) ==
    [i \in 1..(IF Len(old) > n + 1 THEN Len(old) ELSE n + 1) |->
        IF i = n + 1 THEN b ELSE IF i <= Len(old) THEN old[i] ELSE 0]

\* copyFile_ReadFrom with the error of ReadFrom dropped: a short copy is
\* reported as a success
copyFile_ReadFrom_DroppingError ==
    /\ pc = "cf_read"
    /\ \E k \in 0..Len(files[cf.src].data) :
          files' = [files EXCEPT ![cf.dst] =
                      File(Overlay(files[cf.dst].data, SubSeq(files[cf.src].data, 1, k)))]
    /\ cf' = NoCopy
    /\ pc' = "ncl_launch"
    /\ UNCHANGED <<envVars, peer, dirs, useVars, portIdx, probes, openResp, chromePath,
                   userDataDir, l, browser, procs, custom, handle, result, warned,
                   running, connected>>

\* lines 508-509, 487-491: destFile.ReadFrom(sourceFile) writes what it reads
\* of the source as it is now; a read error leaves the bytes written so far
copyFile_ReadFrom ==
    /\ pc = "cf_read"
    /\ \E k \in 0..Len(files[cf.src].data) :
          /\ files' = [files EXCEPT ![cf.dst] =
                      File(Overlay(files[cf.dst].data, SubSeq(files[cf.src].data, 1, k)))]
          /\ IF k < Len(files[cf.src].data)
             THEN Warn("Failed to copy user cookies")
             ELSE UNCHANGED warned
    /\ cf' = NoCopy
    /\ pc' = "ncl_launch"
    /\ UNCHANGED <<envVars, peer, dirs, useVars, portIdx, probes, openResp, chromePath,
                   userDataDir, l, browser, procs, custom, handle, result, running,
                   connected>>

\* lines 381-391: launcher on the automation profile, headless as asked, MustLaunch
NCL_Launch ==
    /\ pc = "ncl_launch"
    /\ MustLaunch(Process(cfg.Headless, chromePath, userDataDir,
                          files[automationCookiesPath(userDataDir)], "launcher"),
                  "ncl_connect")
    /\ UNCHANGED <<envVars, peer, fsVars, useVars, portIdx, probes, openResp, chromePath,
                   userDataDir, cf, browser, custom, handle, warned, connected>>

\* line 394
NCL_Connect ==
    /\ pc = "ncl_connect"
    /\ MustConnect("ncl_cookies")
    /\ UNCHANGED <<envVars, peer, fsVars, useVars, portIdx, probes, openResp, chromePath,
                   userDataDir, cf, l, procs, custom, handle, warned, running>>

\* lines 397, 416-430
loadCookiesForBrowser ==
    /\ pc = "ncl_cookies"
    /\ LoadCookiesInto(browser)
    /\ pc' = "ncl_return"
    /\ UNCHANGED <<envVars, peer, fsVars, useVars, portIdx, probes, openResp, chromePath,
                   userDataDir, cf, l, browser, custom, handle, result, running,
                   connected>>

\* lines 399-402
NCL_Return ==
    /\ pc = "ncl_return"
    /\ handle' = [kind |-> "ChromeBrowser", browser |-> browser, launcher |-> l]
    /\ pc' = "done"
    /\ result' = "isolated"
    /\ UNCHANGED <<envVars, peer, fsVars, useVars, portIdx, probes, openResp, chromePath,
                   userDataDir, cf, l, browser, procs, custom, warned, running,
                   connected>>

(* ------------------------------------------------------ the session handle *)
\* ChromeBrowser.NewPage (lines 214-217, 411-414): stealth.MustPage on the
\* handle's browser; it panics without a live browser behind the connection
ChromeBrowser_NewPage ==
    /\ pc = "done"
    /\ handle.kind = "ChromeBrowser"
    /\ result \in {"attached", "isolated"}
    /\ pages < MaxPages
    /\ lastOp' = "NewPage"
    /\ IF handle.browser \in connected /\ handle.browser \in running
       THEN /\ pages' = pages + 1
            /\ UNCHANGED result
       ELSE /\ result' = "panic_page"
            /\ UNCHANGED pages
    /\ UNCHANGED <<envVars, peer, fsVars, pc, portIdx, probes, openResp, chromePath,
                   userDataDir, cf, l, browser, procs, custom, handle, warned, running,
                   connected, closeCalls>>

\* a Close that releases what the handle holds: the control connection is
\* closed and a browser the handle launched is killed
ChromeBrowser_Close_Releasing ==
    /\ pc = "done"
    /\ handle.kind = "ChromeBrowser"
    /\ result \in {"attached", "isolated"}
    /\ closeCalls < MaxCloses
    /\ closeCalls' = closeCalls + 1
    /\ lastOp' = "Close"
    /\ connected' = connected \ {handle.browser}
    /\ running' = running \ {handle.launcher}
    /\ UNCHANGED <<envVars, peer, fsVars, pc, portIdx, probes, openResp, chromePath,
                   userDataDir, cf, l, browser, procs, custom, handle, result, warned,
                   pages>>

\* ChromeBrowser.Close (lines 208-212, 405-409): logs, nothing else
ChromeBrowser_Close ==
    /\ pc = "done"
    /\ handle.kind = "ChromeBrowser"
    /\ result \in {"attached", "isolated"}
    /\ closeCalls < MaxCloses
    /\ closeCalls' = closeCalls + 1
    /\ lastOp' = "Close"
    /\ UNCHANGED <<envVars, peer, fsVars, pc, portIdx, probes, openResp, chromePath,
                   userDataDir, cf, l, browser, procs, custom, handle, result, warned,
                   running, connected, pages>>

\* CustomBrowser.NewPage (lines 57-60), on the wrapper of lines 98-101
CustomBrowser_NewPage ==
    /\ custom.kind = "CustomBrowser"
    /\ result \in {"running", "system"}
    /\ pages < MaxPages
    /\ lastOp' = "NewPage"
    /\ IF custom.browser \in connected /\ custom.browser \in running
       THEN /\ pages' = pages + 1
            /\ UNCHANGED result
       ELSE /\ result' = "panic_page"
            /\ UNCHANGED pages
    /\ UNCHANGED <<envVars, peer, fsVars, pc, portIdx, probes, openResp, chromePath,
                   userDataDir, cf, l, browser, procs, custom, handle, warned, running,
                   connected, closeCalls>>

\* CustomBrowser.Close (lines 51-55): logs, nothing else
CustomBrowser_Close ==
    /\ custom.kind = "CustomBrowser"
    /\ result \in {"running", "system"}
    /\ closeCalls < MaxCloses
    /\ closeCalls' = closeCalls + 1
    /\ lastOp' = "Close"
    /\ UNCHANGED <<envVars, peer, fsVars, pc, portIdx, probes, openResp, chromePath,
                   userDataDir, cf, l, browser, procs, custom, handle, result, warned,
                   running, connected, pages>>

(* ------------------------------------- a concurrent isolated launch *)
\* the automation cookie database as both invocations resolve it
PeerDst == automationCookiesPath(automationChromeDataDirPath(homeOK))

\* Peer_Create opening the destination without truncating it
Peer_Create_KeepingData ==
    /\ peer.pc = "cf_create"
    /\ files' = [files EXCEPT ![PeerDst] = File(files[PeerDst].data)]
    /\ peer' = [pc |-> "cf_read", n |-> 0]
    /\ UNCHANGED <<envVars, dirs, useVars, pc, portIdx, probes, openResp, chromePath,
                   userDataDir, cf, l, browser, procs, custom, handle, result, warned,
                   running, connected>>

\* lines 502-506 in the other invocation: os.Create(dst) creates the file or
\* truncates it, whatever this invocation is doing
Peer_Create ==
    /\ peer.pc = "cf_create"
    /\ files' = [files EXCEPT ![PeerDst] = File(<<>>)]
    /\ peer' = [pc |-> "cf_read", n |-> 0]
    /\ UNCHANGED <<envVars, dirs, useVars, pc, portIdx, probes, openResp, chromePath,
                   userDataDir, cf, l, browser, procs, custom, handle, result, warned,
                   running, connected>>

\* line 508 in the other invocation: ReadFrom writes the next byte of the
\* source at its own offset in the destination
Peer_Write ==
    /\ peer.pc = "cf_read"
    /\ peer.n < Len(files[userCookiesPath(homeOK)].data)
    /\ files' = [files EXCEPT ![PeerDst] =
                    File(WriteAt(files[PeerDst].data, peer.n,
                                 files[userCookiesPath(homeOK)].data[peer.n + 1]))]
    /\ peer' = [peer EXCEPT !.n = peer.n + 1]
    /\ UNCHANGED <<envVars, dirs, useVars, pc, portIdx, probes, openResp, chromePath,
                   userDataDir, cf, l, browser, procs, custom, handle, result, warned,
                   running, connected>>

\* lines 500, 506, 508-509 in the other invocation: the source is at its
\* end, ReadFrom returns and the deferred Close calls run
Peer_Close ==
    /\ peer.pc = "cf_read"
    /\ peer.n = Len(files[userCookiesPath(homeOK)].data)
    /\ peer' = [peer EXCEPT !.pc = "done"]
    /\ UNCHANGED <<envVars, fsVars, useVars, pc, portIdx, probes, openResp, chromePath,
                   userDataDir, cf, l, browser, procs, custom, handle, result, warned,
                   running, connected>>

(* ------------------------------------------------------------------- Spec *)
Next ==
    \/ NBC_Branch \/ NBC_Launch \/ NBC_Connect \/ NBC_LoadCookies \/ NBC_Wrap
    \/ createCompatibleBrowser \/ NBC_Fallback
    \/ NCA_Start \/ CEC_Get \/ CEC_Status \/ CEC_Connect \/ CEC_NotFound
    \/ NCA_Fatal \/ NCA_Return
    \/ NCL_Find \/ getAutomationChromeDataDir \/ CUC_Mkdir \/ CUC_Stat
    \/ copyFile_Open \/ copyFile_Create \/ copyFile_ReadFrom
    \/ NCL_Launch \/ NCL_Connect \/ loadCookiesForBrowser \/ NCL_Return
    \/ ChromeBrowser_NewPage \/ ChromeBrowser_Close
    \/ CustomBrowser_NewPage \/ CustomBrowser_Close

Spec == Init /\ [][Next]_vars

\* the steps of an acquisition: straight-line code whose calls return, so an
\* acquisition that can take a step takes one; the caller of the handle is
\* under no such obligation
Acquire ==
    \/ NBC_Branch \/ NBC_Launch \/ NBC_Connect \/ NBC_LoadCookies \/ NBC_Wrap
    \/ createCompatibleBrowser \/ NBC_Fallback
    \/ NCA_Start \/ CEC_Get \/ CEC_Status \/ CEC_Connect \/ CEC_NotFound
    \/ NCA_Fatal \/ NCA_Return
    \/ NCL_Find \/ getAutomationChromeDataDir \/ CUC_Mkdir \/ CUC_Stat
    \/ copyFile_Open \/ copyFile_Create \/ copyFile_ReadFrom
    \/ NCL_Launch \/ NCL_Connect \/ loadCookiesForBrowser \/ NCL_Return

SpecFair == Spec /\ WF_vars(Acquire)

\* the isolated launch beside a concurrent invocation; the two are separate
\* operating-system processes and their steps interleave freely
NextRace ==
    \/ NCL_Find \/ getAutomationChromeDataDir \/ CUC_Mkdir \/ CUC_Stat
    \/ copyFile_Open \/ copyFile_Create \/ copyFile_ReadFrom
    \/ NCL_Launch \/ NCL_Connect \/ loadCookiesForBrowser \/ NCL_Return
    \/ Peer_Create \/ Peer_Write \/ Peer_Close

SpecRace == InitRace /\ [][NextRace]_vars

(* ----------------------------------------------------------------- claims *)
Done == pc = "done"

\* a port is reachable when its version request answers 200 and the control
\* connection opens
Reachable(i) == portState[i] = "ok"
NoPortReachable == \A i \in 1..Len(Ports) : ~Reachable(i)

\* the launch of the located Chrome failed: the process did not start, or the
\* control connection to it did not open
LaunchPanicked == result \in {"panic_launch", "panic_connect"}

\* the acquisition ended in the default fallback: with its session, or with
\* the failure of the fallback itself
EndedInFallback ==
    \/ result = "fallback" /\ handle.kind # "none" /\ handle.browser \in connected
    \/ result = "panic_new" /\ procs = <<>>

\* C1: fallback completeness.  An acquisition in which no existing instance
\* was attached and the launch of a located Chrome failed (no binary, the
\* process did not start, the control connection did not open) ends with the
\* session of the default fallback or with the one failure of that fallback;
\* it never ends without a session and without a reported failure, and never
\* by ending the program.
C1_FallbackCompleteness ==
    (Done /\ result # "attached" /\ NoPortReachable
          /\ (findChromePath(chromeExists) = NoPath \/ LaunchPanicked))
        => EndedInFallback

\* C2: when no candidate port yields a working control connection, the
\* attach step ends NotFound without ending the acquisition: the program is
\* not terminated and the acquisition goes on to the launch step.
C2_AttachNotFoundIsNotFatal ==
    (entry = "NewChromeBrowserAttach" /\ NoPortReachable)
        => /\ result # "fatal_no_attach"
           /\ (Done => result \in {"system", "isolated", "fallback"})

\* the acquisition returned a handle on a browser it launched
ReturnedLaunched == Done /\ result \in {"system", "isolated", "fallback"}

\* C3: on every path that launches a browser, the browser behind the handle
\* returned runs in the headless mode of the configuration.
C3_HeadlessHonoured ==
    ReturnedLaunched => procs[handle.browser].headless = cfg.Headless

\* C4: at most one browser process is launched in one acquisition, the
\* system-browser launch and the browser of the returned handle together.
C4_AtMostOneProcess == Len(procs) <= 1

\* the lowest-indexed reachable port (when one is reachable)
LowestReachable ==
    CHOOSE i \in 1..Len(Ports) : Reachable(i) /\ \A j \in 1..(i - 1) : ~Reachable(j)

\* C5: port probing is first-match.  connectToExistingChrome returns the
\* browser on the lowest-indexed reachable port of [9222, 9223, 9224], and
\* returns its error exactly when no port is reachable.
C5_FirstReachablePort ==
    /\ pc = "nca_return" => (~NoPortReachable /\ browser = Ports[LowestReachable])
    /\ pc = "nca_err" => (NoPortReachable /\ browser = Nil)
    /\ result = "attached" => handle.browser = Ports[LowestReachable]

\* only the second port is reachable, and the first one answered 200
C5_Witness ==
    /\ pc = "nca_return"
    /\ browser = Ports[2]
    /\ portState[1] = "connect_err"
    /\ probes = <<Ports[1], Ports[2]>>

\* C6: an acquisition that ends attached to an existing instance has spawned
\* no browser process, and its handle owns none (launcher is nil).
C6_AttachedOwnsNoProcess ==
    result = "attached" =>
        /\ procs = <<>>
        /\ l = Nil
        /\ handle.launcher = Nil
        /\ handle.browser \in {Ports[i] : i \in 1..Len(Ports)}

C6_Witness ==
    /\ Done
    /\ result = "attached"
    /\ handle.kind = "ChromeBrowser"
    /\ handle.browser = Ports[3]

\* C7: a failure of the launch (the process does not start, or the control
\* connection to it does not open) leads to the default fallback; it never
\* leaves the acquisition as an unhandled failure.
C7_LaunchFailureFallsBack == ~LaunchPanicked

\* C8: with no browser binary at any locator path and no existing instance
\* to attach to, every entry point returns the session of the default
\* fallback (the fallback's own launch working) instead of aborting.
C8_NoBinaryFallsBack ==
    (Done /\ findChromePath(chromeExists) = NoPath /\ NoPortReachable
          /\ result # "panic_new")
        => (result = "fallback" /\ handle.kind # "none")

\* the acquisition is past its read of the Cookie Store
CookieStepDone ==
    \/ pc \in {"nbc_wrap", "nbc_compat", "ncl_return"}
    \/ Done /\ result \in {"system", "isolated", "fallback"}

\* C9: on every path that reads the Cookie Store, a cookie file that is
\* missing or is no JSON array of cookies gets a warning logged and leaves
\* every session without injected cookies.
C9_BadCookieFileWarns ==
    (CookieStepDone /\ cookieFile.state \in {"missing", "malformed"})
        => /\ warned \cap {"failed to load cookies", "failed to unmarshal cookies"} # {}
           /\ \A i \in 1..Len(procs) : procs[i].cookies = 0

\* what a session handle stands on
HandleAlive(h) == h.browser \in connected /\ h.browser \in running

\* a step that is a Close call
CloseStep == closeCalls' = closeCalls + 1

\* C10: Close is a no-op.  After any sequence of NewPage and Close calls the
\* browser behind the handle is running and the control connection is open,
\* no NewPage has failed, and a Close step changes nothing but the count of
\* its calls.
C10_CloseIsNoOp ==
    /\ [](/\ handle.kind = "ChromeBrowser" => HandleAlive(handle)
          /\ custom.kind = "CustomBrowser" => HandleAlive(custom)
          /\ result # "panic_page")
    /\ [][CloseStep =>
            UNCHANGED <<envVars, peer, fsVars, pc, browser, l, procs, custom, handle,
                        result, warned, running, connected, pages>>]_vars

\* a page opened on a launched browser after two Close calls
C10_Witness ==
    /\ closeCalls = MaxCloses
    /\ lastOp = "NewPage"
    /\ pages = 1
    /\ result = "isolated"
    /\ handle.launcher \in running

\* the automation profile's cookie database of this acquisition
AutomationDb == automationCookiesPath(automationChromeDataDirPath(homeOK))

\* C11: provisioning the automation profile over one that exists already
\* (getAutomationChromeDataDir, then copyUserCookiesToAutomation) does not
\* delete, truncate or replace the cookie data the automation profile holds:
\* with the home directory resolved, no step changes a cookie database that
\* has data in it.
C11_ProvisioningKeepsCookieData ==
    [][(homeOK /\ files[AutomationDb].exists /\ files[AutomationDb].data # <<>>)
           => files'[AutomationDb] = files[AutomationDb]]_vars

\* the acquisition is past getAutomationChromeDataDir
AutomationDirResolved ==
    pc \in {"cuc_mkdir", "cuc_stat", "cf_open", "cf_create", "cf_read", "ncl_launch",
            "ncl_connect", "ncl_cookies", "ncl_return"}

\* copyFile is running
Copying == pc \in {"cf_open", "cf_create", "cf_read"}

\* C12: whatever os.UserHomeDir answers, the automation profile directory is
\* another directory than the user's, and copyFile never writes the file it
\* reads.
C12_ProfilesDistinct ==
    /\ AutomationDirResolved => userDataDir # getUserChromeDataDir(homeOK)
    /\ Copying => cf.src # cf.dst

\* C13: after an acquisition that launched a browser, the handle returned is
\* connected to the launched process and owns it, and the cookies read from
\* the Cookie Store are in the session behind the handle.
C13_HandleIsLaunchedSession ==
    ReturnedLaunched =>
        /\ l # Nil => (handle.browser = l /\ handle.launcher = l)
        /\ handle.browser \in connected
        /\ cookieFile.state = "valid" => procs[handle.browser].cookies = cookieFile.n

\* the i-th candidate exists and none before it does
FirstExisting(i) == chromeExists[i] /\ \A j \in 1..(i - 1) : ~chromeExists[j]

\* C14: findChromePath returns the first candidate path, in list order, that
\* exists and is executable, and "" exactly when none is; the path an
\* acquisition goes on with is that one.
C14_FirstExistingPath ==
    /\ \A i \in 1..Len(ChromePaths) :
          FirstExisting(i) => findChromePath(chromeExists) = ChromePaths[i]
    /\ (findChromePath(chromeExists) = NoPath)
          <=> (\A i \in 1..Len(ChromePaths) : ~chromeExists[i])
    /\ isSystemChromeAvailable(chromeExists)
          <=> (\E i \in 1..Len(ChromePaths) : chromeExists[i])
    /\ chromePath # NoPath =>
          \E i \in 1..Len(ChromePaths) : FirstExisting(i) /\ chromePath = ChromePaths[i]
    /\ result = "fatal_no_chrome" => \A i \in 1..Len(ChromePaths) : ~chromeExists[i]

\* the second candidate is found with the first missing and the third present
C14_Witness ==
    /\ pc = "ncl_autodir"
    /\ chromePath = ChromePaths[2]
    /\ ~chromeExists[1]
    /\ chromeExists[3]

\* C15: attach is preferred over launch.  A browser process is launched only
\* after existing-instance attach has been tried on every candidate port and
\* has failed, and an acquisition with a reachable port ends attached, with
\* nothing launched.
C15_AttachBeforeLaunch ==
    /\ procs # <<>> => (probes = Ports /\ NoPortReachable)
    /\ (Done /\ ~NoPortReachable) => (result = "attached" /\ procs = <<>>)

\* the user's cookie database of this acquisition
UserDbPath == userCookiesPath(homeOK)

\* neither the Default directory nor the copy failed
CopyDidNotFail ==
    warned \cap {"Failed to create automation Default directory",
                 "Failed to copy user cookies"} = {}

\* C16: in an isolated launch with the user's cookie database present and
\* the copy not failing, the automation profile's cookie database equals the
\* user's byte for byte when the browser is launched; the copy comes before
\* the launch, and the Cookie Store is loaded after the control connection
\* is open.
C16_CopyBeforeLaunch ==
    /\ (Copying \/ pc \in {"ncl_autodir", "cuc_mkdir", "cuc_stat"}) => procs = <<>>
    /\ (entry = "NewChromeBrowserLaunch" /\ procs # <<>> /\ homeOK
            /\ files[UserDbPath].exists /\ CopyDidNotFail)
          => /\ procs[1].profile = files[UserDbPath]
             /\ procs[1].dataDir = automationChromeDataDirPath(homeOK)
    /\ pc \in {"ncl_cookies", "ncl_return"} => (browser = l /\ browser \in connected)
    /\ \A i \in 1..Len(procs) : procs[i].cookies > 0 => i \in connected

\* launched on a copy of the user's database
C16_Witness ==
    /\ entry = "NewChromeBrowserLaunch"
    /\ pc = "ncl_return"
    /\ homeOK
    /\ CopyDidNotFail
    /\ procs[1].profile = File(UserDb)
    /\ procs[1].cookies = MaxCookies

\* the acquisition is provisioning the automation profile
Provisioning == pc \in {"ncl_autodir", "cuc_mkdir", "cuc_stat"} \/ Copying

\* a provisioning step has failed
ProvisioningFailed ==
    warned \cap {"Failed to create Chrome automation directory",
                 "Failed to create automation Default directory",
                 "Failed to copy user cookies"} # {}

\* l.MustLaunch() has been called
LaunchAttempted == procs # <<>> \/ result = "panic_launch"

\* C17: provisioning failures are recoverable.  While the automation profile
\* is provisioned the acquisition is running whatever has failed, and after a
\* failure to create a directory, a missing user database or a failed copy
\* the launch of the browser is attempted.
C17_ProvisioningRecoverable ==
    /\ []((Provisioning \/ pc = "ncl_launch") => result = "running")
    /\ [](ProvisioningFailed => (result = "running" \/ LaunchAttempted))
    /\ ((Provisioning \/ ProvisioningFailed) ~> LaunchAttempted)

\* launched after the Default directory could not be created
C17_Witness ==
    /\ "Failed to create automation Default directory" \in warned
    /\ "Failed to create Chrome automation directory" \in warned
    /\ procs # <<>>
    /\ result = "isolated"

\* connectToExistingChrome has returned
ProbingReturned ==
    entry = "NewChromeBrowserAttach" /\ pc \in {"nca_err", "nca_return", "done"}

\* C18: when connectToExistingChrome returns, no response and no control
\* connection is open to a port other than the one attached to, and when it
\* returns the error none is open at all; while it probes, the only response
\* that can be open is that of the port being probed.
C18_NoConnectionToSkippedPorts ==
    /\ ProbingReturned =>
          /\ \A i \in 1..Len(Ports) :
                Ports[i] # browser => Ports[i] \notin (openResp \cup connected)
          /\ browser = Nil => (openResp \cup connected) = {}
    /\ pc \in {"cec_get", "cec_connect"} => openResp = {}
    /\ pc = "cec_status" => openResp = {Ports[portIdx]}

\* attached to the third port after a non-200 answer and a failed Connect()
C18_Witness ==
    /\ pc = "nca_return"
    /\ portState[1] = "not_200"
    /\ portState[2] = "connect_err"
    /\ browser = Ports[3]
    /\ connected = {Ports[3]}

\* s is an initial part of t
IsPrefix(s, t) == Len(s) <= Len(t) /\ \A i \in 1..Len(s) : s[i] = t[i]

\* the ports are probed in the order of the list, one at a time
ProbesInOrder ==
    /\ IsPrefix(probes, Ports)
    /\ entry = "NewChromeBrowserAttach" => Cardinality(openResp \cup connected) <= 1
    /\ pc = "cec_get" => Len(probes) = portIdx - 1
    /\ pc \in {"cec_status", "cec_connect"} =>
          (Len(probes) = portIdx /\ openResp \subseteq {Ports[portIdx]})

\* what connectToExistingChrome returns: a connected browser or the error
ProbingResult ==
    ProbingReturned =>
        \/ browser = Nil /\ probes = Ports /\ connected = {}
        \/ browser = probes[Len(probes)] /\ connected = {browser}

PeerMidCopy == peer.pc = "cf_read"

\* C20: two concurrent isolated launches race on the profile copy.  The
\* other invocation's os.Create empties the automation cookie database
\* whatever this invocation is doing, its writes land byte by byte, and
\* MustLaunch takes the database as it is at that moment: nothing orders the
\* one against the other.
C20_UnlockedProfileCopy ==
    [][/\ (peer.pc = "cf_create" /\ peer'.pc = "cf_read") =>
              (files'[PeerDst] = File(<<>>) /\ pc' = pc)
       /\ (PeerMidCopy /\ peer'.n > peer.n) =>
              (Len(files'[PeerDst].data) >= peer'.n /\ pc' = pc)
       /\ Len(procs') > Len(procs) =>
              procs'[Len(procs')].profile = files[automationCookiesPath(userDataDir)]]_vars

\* this invocation copied the whole database without an error and then
\* launched on an empty or partly written one, the other being mid-copy
C20_Witness ==
    /\ PeerMidCopy
    /\ homeOK
    /\ CopyDidNotFail
    /\ procs # <<>>
    /\ procs[1].dataDir = automationChromeDataDirPath(homeOK)
    /\ Len(procs[1].profile.data) < Len(files[UserDbPath].data)
====
